---------------------------- MODULE Spec2Model ----------------------------
(***************************************************************************)
(* cloudconformity-scanner: TemplateScanner (scanner.py, and its copy in   *)
(* cli.py) and the command-line run main() (cli.py).                       *)
(*                                                                         *)
(* A Python str is a sequence of one-character strings.  An Optional value *)
(* is a sequence of length at most one: None is << >>, a value v is <<v>>. *)
(***************************************************************************)
EXTENDS Integers, Sequences, FiniteSets, TLC

VARIABLES
    fix_in,        \* _fix: the argument `resource` (None before a call)
    fix_out,       \* _fix: the value returned (None before the return)
    scanner,       \* the TemplateScanner object's fields (__init__)
    call,          \* scan_template's arguments
    pc,            \* position of the scan_template generator
    error,         \* the exception the generator raised, "none" if none
    requests,      \* number of HTTP requests sent by requests.post
    response,      \* the service's answer to the POST (None before it)
    idx,           \* 1-based position of the for loop in response.json()['data']
    yielded,       \* the findings yielded so far, in order
    mpc,           \* position of main()
    env,           \* main(): environment, arguments and config file
    bucketed_data, \* main(): risk level -> findings, in arrival order
    report,        \* main(): what was printed, in order
    exit_code      \* main(): the process exit status (None while running)

vars == <<fix_in, fix_out, scanner, call, pc, error, requests, response, idx,
          yielded, mpc, env, bucketed_data, report, exit_code>>

None == << >>
Some(v) == <<v>>

(***************************************************************************)
(* Bounds of the model.                                                    *)
(***************************************************************************)
\* longest tail appended to a prefix to make an identifier handed to _fix
MaxTail == 3
\* most result items in one response of the scanning service (scanner runs)
MaxItems == 2
\* most result items in one response of the scanning service (main runs)
MaxMainItems == 2

(***************************************************************************)
(* Python str operations used by _fix.                                     *)
(***************************************************************************)
\* str.startswith(prefix)
startswith(s, prefix) ==
    /\ Len(s) >= Len(prefix)
    /\ SubSeq(s, 1, Len(prefix)) = prefix

\* str.split(sep) for a one-character separator: the list of the pieces
\* between the occurrences of sep, one more than there are occurrences
split(s, sep) ==
    LET at == {i \in 1..Len(s) : s[i] = sep}
        cut(n) ==
            IF n = 0 THEN 0
            ELSE IF n > Cardinality(at) THEN Len(s) + 1
            ELSE CHOOSE p \in at : Cardinality({q \in at : q < p}) = n - 1
    IN  [n \in 1..(Cardinality(at) + 1) |->
            SubSeq(s, cut(n - 1) + 1, cut(n) - 1)]

\* 'arn:aws:cloudtrail:us-east-1:123456789012:trail/'
CloudTrailPrefix ==
    <<"a", "r", "n", ":", "a", "w", "s", ":", "c", "l", "o", "u", "d", "t",
      "r", "a", "i", "l", ":", "u", "s", "-", "e", "a", "s", "t", "-", "1",
      ":", "1", "2", "3", "4", "5", "6", "7", "8", "9", "0", "1", "2", ":",
      "t", "r", "a", "i", "l", "/">>

\* 'arn:aws:sns:us-east-1:123456789012'
SnsPrefix ==
    <<"a", "r", "n", ":", "a", "w", "s", ":", "s", "n", "s", ":", "u", "s",
      "-", "e", "a", "s", "t", "-", "1", ":", "1", "2", "3", "4", "5", "6",
      "7", "8", "9", "0", "1", "2">>

\* _fix with the two tests in the other order and the dash split first
fix_dash_first(resource) ==
    IF startswith(resource, CloudTrailPrefix)
    THEN split(split(resource, "-")[1], "/")[1]
    ELSE IF startswith(resource, SnsPrefix)
    THEN split(resource, ":")[Len(split(resource, ":"))]
    ELSE resource

\* _fix without its sns branch
fix_no_sns(resource) ==
    IF startswith(resource, CloudTrailPrefix)
    THEN split(split(resource, "/")[2], "-")[1]
    ELSE resource

\* _fix stripping the last colon-separated piece of every arn
fix_any_arn(resource) ==
    IF startswith(resource, CloudTrailPrefix)
    THEN split(split(resource, "/")[2], "-")[1]
    ELSE IF startswith(resource, <<"a", "r", "n", ":">>)
    THEN split(resource, ":")[Len(split(resource, ":"))]
    ELSE resource

\* TemplateScanner._fix
_fix(resource) ==
    IF startswith(resource, CloudTrailPrefix)
    THEN split(split(resource, "/")[2], "-")[1]
    ELSE IF startswith(resource, SnsPrefix)
    THEN split(resource, ":")[Len(split(resource, ":"))]
    ELSE resource

(***************************************************************************)
(* The scanning service's answer and the template.                         *)
(*                                                                         *)
(* A result item keeps the fields the scan reads: attributes.status,       *)
(* attributes.risk-level, attributes.resource and                          *)
(* relationships.rule.data.id.  id, pretty-risk-level, message and         *)
(* rule-title are copied into the Finding unread and are left out.         *)
(*                                                                         *)
(* template_contents is kept as what YAML().load makes of it: it either    *)
(* raises (parses = FALSE) or returns the CommentedMap of scanner.py line  *)
(* 47, whose Resources section, when present, maps each logical name to    *)
(* the line of its declaration (.lc.line).                                 *)
(***************************************************************************)
\* cli.py RISK_LEVELS
RISK_LEVELS == <<"EXTREME", "VERY_HIGH", "HIGH", "MEDIUM", "LOW">>

Range(seq) == {seq[i] : i \in 1..Len(seq)}

\* sequences over S of length at most n
SeqUpTo(S, n) == UNION {[1..k -> S] : k \in 0..n}

\* logical resource names: 'B', 'C', 'T', 'Z'
NameB == <<"B">>
NameC == <<"C">>
NameT == <<"T">>
NameZ == <<"Z">>

\* the parsed template: its Resources section, if it has one
NoSource == [parses |-> FALSE, has_resources |-> FALSE, Resources |-> << >>]
SourceWithoutResources ==
    [parses |-> TRUE, has_resources |-> FALSE, Resources |-> << >>]
SourceWith(resources) ==
    [parses |-> TRUE, has_resources |-> TRUE, Resources |-> resources]

\* requests.Response.raise_for_status: raises HTTPError for 4xx and 5xx
raises_for_status(status_code) == status_code >= 400 /\ status_code < 600

\* TemplateScanner._line_number returning line 0 for a name it cannot find
line_number_zero(resource, source) ==
    IF source.has_resources /\ resource \in DOMAIN source.Resources
    THEN Some(source.Resources[resource])
    ELSE Some(0)

\* TemplateScanner._line_number: source['Resources'][resource].lc.line, and
\* None on the KeyError of either lookup
_line_number(resource, source) ==
    IF source.has_resources /\ resource \in DOMAIN source.Resources
    THEN Some(source.Resources[resource])
    ELSE None

\* the Finding of scan_template lines 55-66
Finding(item, source) ==
    [id          |-> item.id,
     status      |-> item.status,
     risk_level  |-> item.risk_level,
     resource    |-> _fix(item.resource),
     rule_id     |-> item.rule_id,
     line_number |-> _line_number(_fix(item.resource), source)]

\* the filter without the test of the status
kept_ignoring_status(finding, self) ==
    /\ finding.risk_level \notin Range(self.exclude_levels)
    /\ finding.rule_id \notin Range(self.exclude_rules)

\* the filter without the test of the rule id
kept_ignoring_rules(finding, self) ==
    /\ finding.status # "SUCCESS"
    /\ finding.risk_level \notin Range(self.exclude_levels)

\* scan_template lines 67-73: the finding is yielded, not skipped
kept(finding, self) ==
    /\ finding.status # "SUCCESS"
    /\ finding.risk_level \notin Range(self.exclude_levels)
    /\ finding.rule_id \notin Range(self.exclude_rules)

\* scan_template lines 43-44: the ids in effect
account_id == 
    IF call.override_account_id # None THEN call.override_account_id
    ELSE scanner.account_id
profile_id == 
    IF call.override_profile_id # None THEN call.override_profile_id
    ELSE scanner.profile_id

\* _data's assertion dropped
data_always_ok(account, profile) == TRUE

\* TemplateScanner._data: the assertion holds and the body is built
data_ok(account, profile) == account = None \/ profile = None

\* the parsed template of the current call
source == call.template_contents

\* response.json()['data'] of the answer received
data == response[1].data

(***************************************************************************)
(* Inputs.                                                                 *)
(***************************************************************************)
\* characters of the tails: two letters and the three separators _fix reads
Alphabet == {"N", "x", "-", "/", ":"}

\* what an identifier starts with: nothing, the two prefixes _fix tests,
\* and each of them cut short by its last character
FixPrefixes ==
    {<< >>, CloudTrailPrefix, SnsPrefix,
     SubSeq(CloudTrailPrefix, 1, Len(CloudTrailPrefix) - 1),
     SubSeq(SnsPrefix, 1, Len(SnsPrefix) - 1)}

Identifiers == {p \o t : p \in FixPrefixes, t \in SeqUpTo(Alphabet, MaxTail)}

OptIds(v) == {None, Some(v)}

\* the scanner objects of the scanner runs: __init__ turns exclude_levels
\* and exclude_rules left None into empty lists
Scanners ==
    {[account_id |-> a, profile_id |-> p, exclude_levels |-> x[1],
      exclude_rules |-> x[2]] :
        a \in OptIds("acc"), p \in OptIds("prof"),
        x \in {<< << >>, << >> >>, << <<"LOW">>, <<"R1">> >>}}

\* the templates of the scanner runs
ScanTemplates ==
    {NoSource, SourceWithoutResources, SourceWith([n \in {NameB} |-> 5])}

\* 'arn:aws:sns:us-east-1:123456789012:T', '...:B' and '...:T:B'
SnsT == SnsPrefix \o <<":">> \o NameT
SnsB == SnsPrefix \o <<":">> \o NameB
SnsTB == SnsPrefix \o <<":">> \o NameT \o <<":">> \o NameB

\* the result items of the scanner runs: every status, risk level and rule
\* for the resource the template declares, and failures for the two arns
ScanItems ==
    [status : {"SUCCESS", "FAILURE"}, risk_level : {"HIGH", "LOW"},
     resource : {NameB}, rule_id : {"R1", "R2"}]
    \cup [status : {"FAILURE"}, risk_level : {"HIGH"},
          resource : {SnsT, SnsB, SnsTB}, rule_id : {"R2"}]
    \cup [status : {"FAILURE"}, risk_level : {"LOW"},
          resource : {SnsT}, rule_id : {"R1"}]

\* the answers of the service: a status code and a body, whose json() has
\* a 'data' list (has_data) or not
\* the items of a 'data' list, each with its id: the service numbers them
WithIds(items) == [i \in 1..Len(items) |-> [id |-> i] @@ items[i]]

StatusCodes == {200, 302, 404}

Responses(Items, n) ==
    {[status_code |-> c, has_data |-> TRUE, data |-> WithIds(d)] :
        c \in StatusCodes, d \in SeqUpTo(Items, n)}
    \cup [status_code : StatusCodes, has_data : {FALSE}, data : {<< >>}]

NoCall ==
    [template_contents |-> NoSource, override_account_id |-> None,
     override_profile_id |-> None]
NoScanner ==
    [account_id |-> None, profile_id |-> None, exclude_levels |-> << >>,
     exclude_rules |-> << >>]

genvars == <<call, pc, error, requests, response, idx, yielded>>
mainvars == <<mpc, env, bucketed_data, report, exit_code>>
fixvars == <<fix_in, fix_out>>

GenIdle ==
    /\ call = NoCall
    /\ pc = "idle"
    /\ error = "none"
    /\ requests = 0
    /\ response = None
    /\ idx = 0
    /\ yielded = << >>

MainIdle ==
    /\ mpc = "off"
    /\ env = None
    /\ bucketed_data = << >>
    /\ report = << >>
    /\ exit_code = None

FixIdle == fix_in = None /\ fix_out = None

(***************************************************************************)
(* _fix, called on its own.                                                *)
(***************************************************************************)
InitFix == FixIdle /\ GenIdle /\ MainIdle /\ scanner = NoScanner

\* the call _fix(resource)
FixCall ==
    /\ fix_in = None
    /\ \E resource \in Identifiers : fix_in' = Some(resource)
    /\ UNCHANGED <<fix_out, scanner, genvars, mainvars>>

\* its return
FixReturn ==
    /\ fix_in # None
    /\ fix_out = None
    /\ fix_out' = Some(_fix(fix_in[1]))
    /\ UNCHANGED <<fix_in, scanner, genvars, mainvars>>

NextFix == FixCall \/ FixReturn

SpecFix == InitFix /\ [][NextFix]_vars

(***************************************************************************)
(* scan_template, a generator: the call makes the generator object, the    *)
(* first next() runs lines 43-53, every later step runs the loop body for  *)
(* one item.                                                               *)
(***************************************************************************)
\* the call scan_template(template_contents, override_account_id,
\* override_profile_id): nothing of the body runs yet
ScanTemplateCall(template, acc, prof) ==
    /\ pc = "idle"
    /\ call' = [template_contents |-> template, override_account_id |-> acc,
                override_profile_id |-> prof]
    /\ pc' = "created"
    /\ UNCHANGED <<error, requests, response, idx, yielded>>

\* lines 46-53: yaml.load, _data, requests.post, raise_for_status and
\* response.json()['data']
Begin(Items, n) ==
    /\ pc = "created"
    /\ IF ~source.parses
       THEN /\ pc' = "raised"
            /\ error' = "YAMLError"
            /\ UNCHANGED <<requests, response, idx>>
       ELSE IF ~data_ok(account_id, profile_id)
       THEN /\ pc' = "raised"
            /\ error' = "AssertionError"
            /\ UNCHANGED <<requests, response, idx>>
       ELSE /\ requests' = requests + 1
            /\ \/ /\ pc' = "raised"
                  /\ error' = "ConnectionError"
                  /\ UNCHANGED <<response, idx>>
               \/ \E r \in Responses(Items, n) :
                    /\ response' = Some(r)
                    /\ IF raises_for_status(r.status_code)
                       THEN /\ pc' = "raised"
                            /\ error' = "HTTPError"
                            /\ UNCHANGED idx
                       ELSE IF ~r.has_data
                       THEN /\ pc' = "raised"
                            /\ error' = "JSONError"
                            /\ UNCHANGED idx
                       ELSE /\ pc' = "loop"
                            /\ idx' = 1
                            /\ UNCHANGED error
    /\ UNCHANGED <<call, yielded>>

\* the loop body putting the finding it yields before the earlier ones
IterateNewestFirst ==
    /\ pc = "loop"
    /\ idx <= Len(data)
    /\ LET finding == Finding(data[idx], source)
       IN  yielded' = IF kept(finding, scanner)
                      THEN <<finding>> \o yielded
                      ELSE yielded
    /\ idx' = idx + 1
    /\ UNCHANGED <<call, pc, error, requests, response>>

\* lines 54-73 for the item at idx: the finding is built, then skipped or
\* yielded
Iterate ==
    /\ pc = "loop"
    /\ idx <= Len(data)
    /\ LET finding == Finding(data[idx], source)
       IN  yielded' = IF kept(finding, scanner)
                      THEN Append(yielded, finding)
                      ELSE yielded
    /\ idx' = idx + 1
    /\ UNCHANGED <<call, pc, error, requests, response>>

\* the for loop is exhausted: the generator returns
Finish ==
    /\ pc = "loop"
    /\ idx > Len(data)
    /\ pc' = "done"
    /\ UNCHANGED <<call, error, requests, response, idx, yielded>>

InitScan ==
    /\ FixIdle /\ GenIdle /\ MainIdle
    /\ scanner \in Scanners

ScanCall ==
    /\ \E t \in ScanTemplates, a \in OptIds("acc2"), p \in OptIds("prof2") :
        ScanTemplateCall(t, a, p)
    /\ UNCHANGED <<scanner, mainvars, fixvars>>

ScanBegin == Begin(ScanItems, MaxItems) /\ UNCHANGED <<scanner, mainvars, fixvars>>

ScanIterate == Iterate /\ UNCHANGED <<scanner, mainvars, fixvars>>

ScanFinish == Finish /\ UNCHANGED <<scanner, mainvars, fixvars>>

NextScan == ScanCall \/ ScanBegin \/ ScanIterate \/ ScanFinish

SpecScan == InitScan /\ [][NextScan]_vars

(***************************************************************************)
(* main() of cli.py.  It uses the copy of TemplateScanner in cli.py, whose *)
(* scanner holds no ids and whose scan_template takes the ids as plain     *)
(* arguments: the same generator with scanner.account_id and               *)
(* scanner.profile_id None.                                                *)
(***************************************************************************)
\* os.EX_CONFIG and os.EX_USAGE
EX_CONFIG == 78
EX_USAGE == 64

\* the template file of the main runs: None when open() or read() raises
MainTemplates ==
    {None, Some(NoSource),
     Some(SourceWith([n \in {NameB, NameC} |-> IF n = NameB THEN 5 ELSE 2]))}

\* environment, arguments and config file of the main runs
MainEnvs ==
    {[api_key |-> k, args_account_id |-> i[1], args_profile_id |-> i[2],
      config_account_id |-> i[3], config_profile_id |-> i[4],
      args_exclude_level |-> x[1], config_exclude_levels |-> x[2],
      config_exclude_rules |-> << >>, template |-> t] :
        k \in OptIds("key"),
        i \in {<<None, None, None, None>>,
               <<Some("acc"), None, None, None>>,
               <<None, None, None, Some("prof")>>,
               <<Some("acc"), None, None, Some("prof")>>,
               <<Some("acc"), Some("prof"), None, None>>},
        x \in {<<None, << >> >>, <<Some(<<"LOW">>), <<"MEDIUM">> >>},
        t \in MainTemplates}

\* the result items of the main runs: failures of every risk level, and of
\* one the tool does not know, on two declared resources and an undeclared
\* one, and a SUCCESS
MainItems ==
    [status : {"FAILURE"}, risk_level : Range(RISK_LEVELS) \cup {"INFO"},
     resource : {NameB, NameC, NameZ}, rule_id : {"R1"}]
    \cup [status : {"SUCCESS"}, risk_level : {"HIGH"}, resource : {NameB},
          rule_id : {"R1"}]

\* lines 49-58: the ids handed to scan_template
main_account_id(e) ==
    IF e.args_account_id # None THEN e.args_account_id ELSE e.config_account_id
main_profile_id(e) ==
    IF e.args_profile_id # None THEN e.args_profile_id ELSE e.config_profile_id

\* lines 52-53 and 61-62: the exclusion lists handed to TemplateScanner
main_exclude_levels(e) ==
    IF e.args_exclude_level # None THEN e.args_exclude_level[1]
    ELSE e.config_exclude_levels

\* lines 23-66: the api key, the arguments, the config file, the scanner,
\* the template file and the call of scan_template
MainStart ==
    /\ mpc = "start"
    /\ LET e == env[1]
       IN  IF e.api_key = None
           THEN /\ exit_code' = Some(EX_CONFIG)
                /\ mpc' = "exited"
                /\ UNCHANGED <<scanner, genvars>>
           ELSE IF e.args_account_id # None /\ e.args_profile_id # None
           THEN /\ exit_code' = Some(EX_USAGE)
                /\ mpc' = "exited"
                /\ UNCHANGED <<scanner, genvars>>
           ELSE /\ scanner' = [account_id |-> None, profile_id |-> None,
                               exclude_levels |-> main_exclude_levels(e),
                               exclude_rules |-> e.config_exclude_rules]
                /\ IF e.template = None
                   THEN /\ exit_code' = Some(1)
                        /\ mpc' = "exited"
                        /\ UNCHANGED genvars
                   ELSE /\ ScanTemplateCall(e.template[1], main_account_id(e),
                                            main_profile_id(e))
                        /\ mpc' = "scanning"
                        /\ UNCHANGED exit_code
    /\ UNCHANGED <<env, bucketed_data, report, fixvars>>

\* bucketed_data with the item appended to the list of its risk level
bucket(b, item) ==
    IF item.risk_level \in DOMAIN b
    THEN [b EXCEPT ![item.risk_level] = Append(@, item)]
    ELSE [l \in DOMAIN b \cup {item.risk_level} |->
            IF l = item.risk_level THEN <<item>> ELSE b[l]]

\* lines 69-73: one turn of the for statement: the generator runs to its
\* next finding, its end or its exception, and a finding is bucketed
MainLoop ==
    /\ mpc = "scanning"
    /\ pc \in {"created", "loop"}
    /\ Begin(MainItems, MaxMainItems) \/ Iterate \/ Finish
    /\ IF pc' = "raised"
       THEN /\ exit_code' = Some(1)
            /\ mpc' = "exited"
            /\ UNCHANGED bucketed_data
       ELSE IF Len(yielded') > Len(yielded)
       THEN LET item == yielded'[Len(yielded')]
            IN  IF item.risk_level \in Range(RISK_LEVELS)
                THEN /\ bucketed_data' = bucket(bucketed_data, item)
                     /\ UNCHANGED <<mpc, exit_code>>
                ELSE /\ exit_code' = Some(1)
                     /\ mpc' = "exited"
                     /\ UNCHANGED bucketed_data
       ELSE UNCHANGED <<mpc, exit_code, bucketed_data>>
    /\ UNCHANGED <<scanner, env, report, fixvars>>

\* the sort key with findings without a line number put last
sort_key_none_last(finding) ==
    IF finding.line_number # None THEN finding.line_number[1] ELSE 1000000

\* line 83: the sort key of a finding
sort_key(finding) ==
    IF finding.line_number # None THEN finding.line_number[1] ELSE -1

\* sorted(findings, key=sort_key): the stable sort
sorted(findings) ==
    LET n == Len(findings)
        place(i) ==
            1 + Cardinality({j \in 1..n :
                    \/ sort_key(findings[j]) < sort_key(findings[i])
                    \/ /\ sort_key(findings[j]) = sort_key(findings[i])
                       /\ j < i})
    IN  [p \in 1..n |-> findings[CHOOSE i \in 1..n : place(i) = p]]

\* lines 76-86 from RISK_LEVELS[k] on: what is printed
RECURSIVE printed(_, _)
printed(b, k) ==
    IF k > Len(RISK_LEVELS) THEN << >>
    ELSE IF RISK_LEVELS[k] \notin DOMAIN b THEN printed(b, k + 1)
    ELSE <<[header |-> TRUE, risk_level |-> RISK_LEVELS[k], finding |-> None]>>
         \o [i \in 1..Len(b[RISK_LEVELS[k]]) |->
                [header |-> FALSE, risk_level |-> RISK_LEVELS[k],
                 finding |-> Some(sorted(b[RISK_LEVELS[k]])[i])]]
         \o printed(b, k + 1)

\* lines 75-90: the report and the exit status
MainReport ==
    /\ mpc = "scanning"
    /\ pc = "done"
    /\ report' = printed(bucketed_data, 1)
    /\ exit_code' = IF DOMAIN bucketed_data # {} THEN Some(1) ELSE Some(0)
    /\ mpc' = "exited"
    /\ UNCHANGED <<scanner, genvars, env, bucketed_data, fixvars>>

InitMain ==
    /\ FixIdle /\ GenIdle
    /\ scanner = NoScanner
    /\ mpc = "start"
    /\ env \in {Some(e) : e \in MainEnvs}
    /\ bucketed_data = << >>
    /\ report = << >>
    /\ exit_code = None

NextMain == MainStart \/ MainLoop \/ MainReport

SpecMain == InitMain /\ [][NextMain]_vars

(***************************************************************************)
(* Claims about _fix (SpecFix).                                            *)
(***************************************************************************)
\* what follows the prefix in r
After(r, prefix) == SubSeq(r, Len(prefix) + 1, Len(r))

\* every NAME such that r is CloudTrailPrefix NAME "-" suffix
CloudTrailNames(r) ==
    IF startswith(r, CloudTrailPrefix)
    THEN LET t == After(r, CloudTrailPrefix)
         IN  {SubSeq(t, 1, i - 1) : i \in {j \in 1..Len(t) : t[j] = "-"}}
    ELSE {}

\* 'arn:aws:sns:us-east-1:123456789012:'
SnsPattern == SnsPrefix \o <<":">>

\* the NAME such that r is SnsPattern NAME, if r has that form
SnsNames(r) ==
    IF startswith(r, SnsPattern) THEN {After(r, SnsPattern)} ELSE {}

\* C7 as stated: _fix returns NAME for every identifier
\* CloudTrailPrefix NAME "-" suffix, whatever NAME and suffix are
C7Original ==
    fix_out # None =>
        \A name \in CloudTrailNames(fix_in[1]) : fix_out[1] = name

\* C7 amended: _fix returns NAME for every identifier
\* CloudTrailPrefix NAME "-" suffix whose NAME holds no "-" and no "/"
C7Theorem ==
    fix_out # None =>
        \A name \in CloudTrailNames(fix_in[1]) :
            ("-" \notin Range(name) /\ "/" \notin Range(name))
                => fix_out[1] = name

C7Witness ==
    /\ fix_in = Some(CloudTrailPrefix \o <<"N", "-", "x">>)
    /\ fix_out = Some(<<"N">>)

\* C9 as stated: an identifier that has neither the form
\* CloudTrailPrefix NAME "-" suffix nor the form SnsPattern NAME is
\* returned unchanged
C9Original ==
    fix_out # None =>
        ((CloudTrailNames(fix_in[1]) = {} /\ SnsNames(fix_in[1]) = {})
            => fix_out[1] = fix_in[1])

\* C9 amended: an identifier that starts neither with CloudTrailPrefix nor
\* with SnsPrefix (the account number, without the colon after it) is
\* returned unchanged
C9Theorem ==
    fix_out # None =>
        ((~startswith(fix_in[1], CloudTrailPrefix)
          /\ ~startswith(fix_in[1], SnsPrefix))
            => fix_out[1] = fix_in[1])

C9Witness ==
    /\ fix_in = Some(SubSeq(SnsPrefix, 1, Len(SnsPrefix) - 1) \o <<":", "N">>)
    /\ fix_out = fix_in

(***************************************************************************)
(* Claims about scan_template (SpecScan).                                  *)
(***************************************************************************)
\* a call is under way with both an account id and a profile id in effect
BothIds == pc # "idle" /\ account_id # None /\ profile_id # None

\* the generator has run: it is past its first next()
Started == pc \in {"raised", "loop", "done"}

\* the items the loop has gone through
Consumed == IF pc \in {"loop", "done"} THEN 1..(idx - 1) ELSE {}

\* the item passes the three tests of the claims: not a SUCCESS, its risk
\* level and its rule id not excluded
Surviving(item) ==
    /\ item.status # "SUCCESS"
    /\ \A i \in 1..Len(scanner.exclude_levels) :
        scanner.exclude_levels[i] # item.risk_level
    /\ \A i \in 1..Len(scanner.exclude_rules) :
        scanner.exclude_rules[i] # item.rule_id

\* C1 as stated: with both ids in effect the scan ends in the configuration
\* error (_data's assertion) and no HTTP request is ever sent
C1Original ==
    BothIds =>
        /\ requests = 0
        /\ Started => (pc = "raised" /\ error = "AssertionError")

\* C1 amended: with both ids in effect no HTTP request is ever sent and the
\* scan ends in an error: the configuration error when the template
\* parses, the parser's error when it does not
C1Theorem ==
    BothIds =>
        /\ requests = 0
        /\ response = None
        /\ Started =>
            /\ pc = "raised"
            /\ error = IF source.parses THEN "AssertionError" ELSE "YAMLError"

\* both ids are in effect through an override, and the assertion fired
C1Witness ==
    /\ BothIds
    /\ scanner.account_id = None
    /\ call.override_account_id # None
    /\ pc = "raised"
    /\ error = "AssertionError"

\* the status code of the answer is outside 2xx
Non2xx ==
    /\ response # None
    /\ (response[1].status_code < 200 \/ response[1].status_code >= 300)

\* C2: a non-2xx answer makes scan_template fail with an error, and no
\* finding is yielded, whatever the body
C2Claim == Non2xx => (pc = "raised" /\ yielded = << >>)

\* C3: no yielded finding has status "SUCCESS"
C3Theorem == \A i \in 1..Len(yielded) : yielded[i].status # "SUCCESS"

\* a SUCCESS item and a failure have been gone through with nothing
\* excluded, and the failure was yielded
C3Witness ==
    /\ scanner.exclude_levels = << >>
    /\ scanner.exclude_rules = << >>
    /\ \E i \in Consumed : data[i].status = "SUCCESS"
    /\ yielded # << >>

\* C4: no yielded finding has an excluded risk level or an excluded rule id
C4Theorem ==
    \A i \in 1..Len(yielded) :
        /\ \A j \in 1..Len(scanner.exclude_levels) :
            scanner.exclude_levels[j] # yielded[i].risk_level
        /\ \A j \in 1..Len(scanner.exclude_rules) :
            scanner.exclude_rules[j] # yielded[i].rule_id

\* a LOW item and a HIGH item were gone through with LOW excluded, and
\* only the HIGH one was yielded
C4Witness ==
    /\ scanner.exclude_levels = <<"LOW">>
    /\ pc = "done"
    /\ Len(data) = 2
    /\ data[1].risk_level = "LOW"
    /\ data[1].status = "FAILURE"
    /\ data[2].risk_level = "HIGH"
    /\ Len(yielded) = 1
    /\ yielded[1].id = 2

\* C5: on an answer that passes, the yielded findings are those of the
\* surviving items gone through, once each and in the order of `data`, and
\* the loop goes on to the end of `data`, where the scan is done
C5Theorem ==
    pc \in {"loop", "done"} =>
        /\ \A i, j \in 1..Len(yielded) : i < j => yielded[i].id < yielded[j].id
        /\ {yielded[i].id : i \in 1..Len(yielded)}
             = {i \in Consumed : Surviving(data[i])}
        /\ \A i \in 1..Len(yielded) :
            LET f == yielded[i]
            IN  /\ f.status = data[f.id].status
                /\ f.risk_level = data[f.id].risk_level
                /\ f.rule_id = data[f.id].rule_id
        /\ Len(yielded) <= Len(data)
        /\ idx \in 1..(Len(data) + 1)
        /\ (pc = "loop" /\ idx > Len(data)) => ENABLED ScanFinish
        /\ pc = "done" => idx = Len(data) + 1

\* two surviving items, both gone through and yielded in their order
C5Witness ==
    /\ pc = "done"
    /\ Len(data) = 2
    /\ Len(yielded) = 2
    /\ yielded[1].id = 1
    /\ yielded[2].id = 2

\* the logical names the template declares under Resources
Declared == IF source.has_resources THEN DOMAIN source.Resources ELSE {}

C8Original ==
    \A i \in 1..Len(yielded) :
        \A name \in SnsNames(data[yielded[i].id].resource) :
            yielded[i].resource = name

\* C8 amended: the finding built from an item whose resource is
\* SnsPattern NAME, NAME holding no colon, carries what _fix returns,
\* which is NAME
C8Theorem ==
    \A i \in 1..Len(yielded) :
        \A name \in SnsNames(data[yielded[i].id].resource) :
            ":" \notin Range(name) => yielded[i].resource = name

C8Witness ==
    /\ yielded # << >>
    /\ data[yielded[1].id].resource = SnsT
    /\ yielded[1].resource = NameT

(***************************************************************************)
(* Claims about main (SpecMain).                                           *)
(***************************************************************************)
\* the place of a risk level in the fixed order
Rank(level) == CHOOSE k \in 1..Len(RISK_LEVELS) : RISK_LEVELS[k] = level

\* f may be printed before g in a group: f has no line number, or both
\* have one and f's is not the larger
LineBefore(f, g) ==
    \/ f.line_number = None
    \/ /\ g.line_number # None
       /\ f.line_number[1] <= g.line_number[1]

\* the places of the report that print a finding
FindingLines == {i \in 1..Len(report) : ~report[i].header}

\* C10: the exit status is non-zero whenever a finding was yielded, and
\* zero only when the scan completed and yielded none; the report goes
\* through the risk levels in the order EXTREME, VERY_HIGH, HIGH, MEDIUM,
\* LOW, each group under its header, and within a group by ascending line
\* number, findings without a line number first; a completed scan reports
\* every yielded finding once
C10Theorem ==
    /\ mpc # "exited" => (exit_code = None /\ report = << >>)
    /\ mpc = "exited" =>
        /\ exit_code # None
        /\ yielded # << >> => exit_code[1] # 0
        /\ exit_code = Some(0) => (pc = "done" /\ yielded = << >>)
        /\ \A i, j \in 1..Len(report) :
            i < j => Rank(report[i].risk_level) <= Rank(report[j].risk_level)
        /\ \A i \in 1..Len(report) :
            report[i].header
                <=> (i = 1 \/ report[i - 1].risk_level # report[i].risk_level)
        /\ \A i \in FindingLines :
            report[i].finding[1].risk_level = report[i].risk_level
        /\ \A i, j \in FindingLines :
            (i < j /\ report[i].risk_level = report[j].risk_level)
                => LineBefore(report[i].finding[1], report[j].finding[1])
        /\ pc = "done" =>
            /\ {report[i].finding[1] : i \in FindingLines} = Range(yielded)
            /\ Cardinality(FindingLines) = Len(yielded)

\* two findings of one risk level arrived with the line number first and
\* were printed with the one without a line number first; exit status 1
C10Witness ==
    /\ mpc = "exited"
    /\ exit_code = Some(1)
    /\ Len(yielded) = 2
    /\ yielded[1].line_number = Some(5)
    /\ yielded[2].line_number = None
    /\ Len(report) = 3
    /\ report[2].finding = Some(yielded[2])
    /\ report[3].finding = Some(yielded[1])

=============================================================================
